---- MODULE Spec2Model ----
(***************************************************************************)
(* Relay it!  Screenshot analysis API with Gemini Flash.                   *)
(*                                                                         *)
(* Two Flask applications are modelled:                                    *)
(*   src/api/index.py  (the Vercel app: analyze, regenerate, summarize)    *)
(*   src/index.py      (the pydantic app: analyze, regenerate)             *)
(* together with the fence-stripping JSON parser each of them applies to   *)
(* the text the model returns.                                             *)
(***************************************************************************)
EXTENDS Integers, Sequences, FiniteSets, TLC

VARIABLES
    GEMINI_API_KEY,  \* whether the credential was set at process start
    handler,         \* the route function handling the current request
    request,         \* the request body as request.get_json() sees it
    pc,              \* position of the handler / of the parser run
    calls,           \* generate_content calls issued for the current request
    reply,           \* what generate_content did: raised, or returned text
    response,        \* the HTTP response returned by the handler
    parse            \* the parser run of SpecParse

vars == <<GEMINI_API_KEY, handler, request, pc, calls, reply, response, parse>>

(***************************************************************************)
(* Bounds.                                                                 *)
(***************************************************************************)
\* longest model text, in tokens, the parser is run on
MaxLen == 6
\* most consolidated entities in a regenerate reply
MaxSummary == 2

(***************************************************************************)
(* JSON values.  Every value is a record tagged by its JSON type, so that  *)
(* any two values can be compared.                                         *)
(***************************************************************************)
Null == [j |-> "null"]
Bool(b) == [j |-> "bool", b |-> b]
Num(n) == [j |-> "num", n |-> n]
Str(s) == [j |-> "str", s |-> s]
List(q) == [j |-> "list", items |-> q]
Obj(f) == [j |-> "obj", o |-> f]
EmptyObj == Obj([k \in {} |-> Null])

IsObj(v) == v.j = "obj"
IsList(v) == v.j = "list"
IsStr(v) == v.j = "str"
Keys(v) == DOMAIN v.o
Elems(v) == {v.items[i] : i \in 1..Len(v.items)}

(***************************************************************************)
(* Results of Python calls: a returned value or a raised exception.        *)
(***************************************************************************)
Ok(v) == [ok |-> TRUE, v |-> v]
Raise(e) == [ok |-> FALSE, exc |-> e]

\* exception classes that are subclasses of ValueError
ValueErrors == {"ValueError", "JSONDecodeError", "binascii.Error"}

(***************************************************************************)
(* Model text.  A text is a sequence of tokens:                            *)
(*   "F"  the three backquotes of a markdown fence                         *)
(*   "T"  a run of other non-blank characters, e.g. the tag json           *)
(*   "N"  a newline          "S"  a space                                  *)
(*   "J"  the serialisation of one JSON document                           *)
(***************************************************************************)
Tokens == {"F", "T", "N", "S", "J"}
Whitespace == {"N", "S"}

Texts(n) == UNION {[1..k -> Tokens] : k \in 0..n}

\* str.strip(): leading and trailing whitespace removed
RECURSIVE LStrip(_)
LStrip(t) ==
    IF t # <<>> /\ Head(t) \in Whitespace THEN LStrip(Tail(t)) ELSE t

RECURSIVE RStrip(_)
RStrip(t) ==
    IF t # <<>> /\ t[Len(t)] \in Whitespace
    THEN RStrip(SubSeq(t, 1, Len(t) - 1)) ELSE t

Strip(t) == RStrip(LStrip(t))

\* str.startswith("```")
StartsWithFence(t) == t # <<>> /\ Head(t) = "F"

\* str.split("\n"): the lines of t, at least one
RECURSIVE Split(_)
Split(t) ==
    IF \E i \in 1..Len(t) : t[i] = "N"
    THEN LET i == CHOOSE i \in 1..Len(t) :
                     t[i] = "N" /\ \A k \in 1..(i - 1) : t[k] # "N"
         IN  <<SubSeq(t, 1, i - 1)>> \o Split(SubSeq(t, i + 1, Len(t)))
    ELSE <<t>>

\* "\n".join(lines)
RECURSIVE Join(_)
Join(lines) ==
    IF lines = <<>> THEN <<>>
    ELSE IF Len(lines) = 1 THEN lines[1]
    ELSE lines[1] \o <<"N">> \o Join(Tail(lines))

\* lines[1:-1]
Slice1(lines) == SubSeq(lines, 2, Len(lines) - 1)

\* json.loads(text), doc being the value the token "J" serialises
json_loads(t, doc) ==
    IF Strip(t) = <<"J">> THEN Ok(doc) ELSE Raise("JSONDecodeError")

\* a parser that drops the first and last lines of every text, fenced or not
NormalizeAlways(t) == Join(Slice1(Split(Strip(t))))

\* a parser that drops the first line only: lines[1:]
NormalizeKeepLast(t) ==
    LET text == Strip(t)
    IN  IF StartsWithFence(text) THEN Join(Tail(Split(text))) ELSE text

\* the text handed to json.loads by parse_json_response
ApiNormalize(t) ==
    LET text == Strip(t)
    IN  IF StartsWithFence(text)
        THEN LET lines == Split(text) IN Join(Slice1(lines))
        ELSE text

parse_json_response(t, doc) == json_loads(ApiNormalize(t), doc)

\* the same steps, inline in analyze_with_gemini
AnalyzeNormalize(t) ==
    LET response_text == Strip(t)
    IN  IF StartsWithFence(response_text)
        THEN LET lines == Split(response_text) IN Join(Slice1(lines))
        ELSE response_text

analyze_parse(t, doc) ==
    LET r == json_loads(AnalyzeNormalize(t), doc)
    IN  IF r.ok THEN r ELSE Raise("ValueError")

\* the same steps, inline in regenerate_with_gemini
RegenerateNormalize(t) ==
    LET response_text == Strip(t)
    IN  IF StartsWithFence(response_text)
        THEN LET lines == Split(response_text) IN Join(Slice1(lines))
        ELSE response_text

regenerate_parse(t, doc) ==
    LET r == json_loads(RegenerateNormalize(t), doc)
    IN  IF r.ok THEN r ELSE Raise("ValueError")

Parsers == {"parse_json_response", "analyze_with_gemini", "regenerate_with_gemini"}

NormalizeBy(p, t) ==
    CASE p = "parse_json_response" -> ApiNormalize(t)
      [] p = "analyze_with_gemini" -> AnalyzeNormalize(t)
      [] p = "regenerate_with_gemini" -> RegenerateNormalize(t)

ParseBy(p, t, doc) ==
    CASE p = "parse_json_response" -> parse_json_response(t, doc)
      [] p = "analyze_with_gemini" -> analyze_parse(t, doc)
      [] p = "regenerate_with_gemini" -> regenerate_parse(t, doc)

(***************************************************************************)
(* Python operations on the decoded request body.                          *)
(***************************************************************************)
\* bool(v) is False
Falsy(v) ==
    \/ v.j = "null"
    \/ IsObj(v) /\ Keys(v) = {}
    \/ IsList(v) /\ v.items = <<>>
    \/ IsStr(v) /\ v.s = ""

\* k in data: a key of a dict, an element of a list
In(k, data) ==
    IF IsObj(data) THEN k \in Keys(data)
    ELSE IsList(data) /\ Str(k) \in Elems(data)

\* data[k]
GetItem(data, k) ==
    IF IsObj(data)
    THEN IF k \in Keys(data) THEN Ok(data.o[k]) ELSE Raise("KeyError")
    ELSE Raise("TypeError")

\* data.get(k, default)
Get(data, k, default) ==
    IF IsObj(data)
    THEN Ok(IF k \in Keys(data) THEN data.o[k] ELSE default)
    ELSE Raise("AttributeError")

(***************************************************************************)
(* Images.  An image string is a base64 text, possibly behind a data URL   *)
(* prefix.                                                                 *)
(***************************************************************************)
PngB64 == "iVBORw0KGgo="
DataUrlPng == "data:image/png;base64,iVBORw0KGgo="
BadB64 == "A"
ImageStrings == {PngB64, DataUrlPng, BadB64}

\* v after "if v.startswith('data:'): v = v.split(',')[1]"
StripDataUrl(s) == IF s = DataUrlPng THEN PngB64 ELSE s

\* base64.b64decode(s)
b64decode(s) == IF s = PngB64 THEN Ok(Str("<png bytes>")) ELSE Raise("binascii.Error")

decode_base64_image(image_data) ==
    IF ~IsStr(image_data) THEN Raise("AttributeError")
    ELSE b64decode(StripDataUrl(image_data.s))

\* get_model(): the configured model, or ValueError without a credential
get_model(key) == IF key THEN Ok(Str("gemini-2.0-flash")) ELSE Raise("ValueError")

(***************************************************************************)
(* HTTP responses.                                                         *)
(***************************************************************************)
HTTP_OK == 200
HTTP_BAD_REQUEST == 400
HTTP_INTERNAL_ERROR == 500

Response(status, body) == [status |-> status, body |-> body]
NoResponse == [status |-> 0, body |-> Null]
jsonify(v) == Response(HTTP_OK, v)

ErrorBody(msg) == Obj("error" :> Str(msg))

\* a handler runs until it issues generate_content or until it returns
CallModel == [call |-> TRUE, resp |-> NoResponse]
Return(resp) == [call |-> FALSE, resp |-> resp]

\* an exception that leaves the route function: Flask answers 500
Unhandled == Response(HTTP_INTERNAL_ERROR, Str("Internal Server Error"))

(***************************************************************************)
(* src/api/index.py                                                        *)
(***************************************************************************)
ApiAnalyzeFallback ==
    Obj("rawText" :> Str("") @@ "summary" :> Str("") @@ "category" :> Str("other")
        @@ "entities" :> List(<<>>) @@ "suggestedNotebookTitle" :> Null)

\* analyze, up to model.generate_content
api_analyze_pre(req, key) ==
    IF ~req.ok THEN Return(jsonify(ApiAnalyzeFallback))
    ELSE LET data == req.v IN
    IF Falsy(data) \/ ~In("image", data)
    THEN Return(Response(HTTP_BAD_REQUEST, ErrorBody("Missing 'image' field")))
    ELSE LET image == GetItem(data, "image") IN
    IF ~image.ok THEN Return(jsonify(ApiAnalyzeFallback))
    ELSE IF ~decode_base64_image(image.v).ok THEN Return(jsonify(ApiAnalyzeFallback))
    ELSE IF ~get_model(key).ok THEN Return(jsonify(ApiAnalyzeFallback))
    ELSE CallModel

\* an analyze that asks the model again when its text does not parse
api_analyze_retry(req, out) ==
    IF out.raised # "none" THEN Return(jsonify(ApiAnalyzeFallback))
    ELSE LET result == parse_json_response(out.text, out.doc) IN
         IF result.ok THEN Return(jsonify(result.v)) ELSE CallModel

\* analyze, from the return of model.generate_content
api_analyze_post(req, out) ==
    IF out.raised # "none" THEN Return(jsonify(ApiAnalyzeFallback))
    ELSE LET result == parse_json_response(out.text, out.doc) IN
         IF result.ok THEN Return(jsonify(result.v))
         ELSE Return(jsonify(ApiAnalyzeFallback))

ApiRegenerateFallback(session_id) ==
    Obj("sessionId" :> session_id @@ "sessionSummary" :> Str("")
        @@ "sessionCategory" :> Str("other") @@ "entities" :> List(<<>>)
        @@ "suggestedNotebookTitle" :> Null)

\* the except clause of regenerate
api_regenerate_except(req) ==
    IF ~req.ok THEN Return(Unhandled)            \* data was never assigned
    ELSE LET data == req.v IN
    IF Falsy(data) THEN Return(jsonify(ApiRegenerateFallback(Str(""))))
    ELSE LET sid == Get(data, "sessionId", Str("")) IN
         IF sid.ok THEN Return(jsonify(ApiRegenerateFallback(sid.v)))
         ELSE Return(Unhandled)

api_regenerate_pre(req, key) ==
    IF ~req.ok THEN api_regenerate_except(req)
    ELSE LET data == req.v IN
    IF Falsy(data) \/ ~In("sessionId", data)
    THEN Return(Response(HTTP_BAD_REQUEST, ErrorBody("Missing 'sessionId' field")))
    ELSE IF ~In("screens", data)
    THEN Return(Response(HTTP_BAD_REQUEST, ErrorBody("Missing 'screens' field")))
    ELSE IF ~GetItem(data, "sessionId").ok THEN api_regenerate_except(req)
    ELSE LET previous_session == Get(data, "previousSession", EmptyObj) IN
    IF ~previous_session.ok THEN api_regenerate_except(req)
    ELSE IF ~Get(previous_session.v, "sessionSummary", Str("No previous context")).ok
    THEN api_regenerate_except(req)
    ELSE IF ~get_model(key).ok THEN api_regenerate_except(req)
    ELSE CallModel

api_regenerate_post(req, out) ==
    IF out.raised # "none" THEN api_regenerate_except(req)
    ELSE LET result == parse_json_response(out.text, out.doc) IN
         IF result.ok THEN Return(jsonify(result.v))
         ELSE api_regenerate_except(req)

ApiSummarizeFallback ==
    Obj("condensedSummary" :> Str("") @@ "keyHighlights" :> List(<<>>)
        @@ "recommendations" :> List(<<>>) @@ "mergedEntities" :> List(<<>>)
        @@ "suggestedTitle" :> Str("") @@ "suggestedQueries" :> List(<<>>)
        @@ "keywords" :> List(<<>>))

api_summarize_pre(req, key) ==
    IF ~req.ok THEN Return(jsonify(ApiSummarizeFallback))
    ELSE LET data == req.v IN
    IF Falsy(data) \/ ~In("sessionId", data)
    THEN Return(Response(HTTP_BAD_REQUEST, ErrorBody("Missing 'sessionId' field")))
    ELSE IF ~In("sessionName", data)
    THEN Return(Response(HTTP_BAD_REQUEST, ErrorBody("Missing 'sessionName' field")))
    ELSE IF ~In("entities", data)
    THEN Return(Response(HTTP_BAD_REQUEST, ErrorBody("Missing 'entities' field")))
    ELSE IF ~GetItem(data, "sessionName").ok THEN Return(jsonify(ApiSummarizeFallback))
    ELSE IF ~GetItem(data, "entities").ok THEN Return(jsonify(ApiSummarizeFallback))
    ELSE IF ~get_model(key).ok THEN Return(jsonify(ApiSummarizeFallback))
    ELSE CallModel

api_summarize_post(req, out) ==
    IF out.raised # "none" THEN Return(jsonify(ApiSummarizeFallback))
    ELSE LET result == parse_json_response(out.text, out.doc) IN
         IF result.ok THEN Return(jsonify(result.v))
         ELSE Return(jsonify(ApiSummarizeFallback))

(***************************************************************************)
(* src/index.py                                                            *)
(***************************************************************************)
\* the fields a pydantic request class requires, in declaration order
AnalyzeRequestRequired == <<"image", "session_id">>
RegenerateRequestRequired == <<"session_id", "deleted_ids", "remaining_screenshots">>

\* AnalyzeRequest.validate_image
validate_image(v) == b64decode(StripDataUrl(v.s)).ok

ErrorDetail(type, field) ==
    Obj("type" :> Str(type) @@ "loc" :> List(<<Str(field)>>))

\* e.errors() of the ValidationError for the missing fields among required
MissingDetails(required, data) ==
    LET missing == SelectSeq(required, LAMBDA f : f \notin Keys(data))
    IN  [i \in 1..Len(missing) |-> ErrorDetail("missing", missing[i])]

\* AnalyzeRequest(**data): the error list of the ValidationError, empty when valid
AnalyzeRequestErrors(data) ==
    MissingDetails(AnalyzeRequestRequired, data)
        \o (IF "image" \in Keys(data) /\ ~validate_image(data.o["image"])
            THEN <<ErrorDetail("value_error", "image")>> ELSE <<>>)

RegenerateRequestErrors(data) == MissingDetails(RegenerateRequestRequired, data)

InvalidRequest(details) ==
    Response(HTTP_BAD_REQUEST,
             Obj("error" :> Str("Invalid request") @@ "details" :> List(details)))

\* except ValueError as e: ... 400
ValueErrorResponse(msg) == Response(HTTP_BAD_REQUEST, ErrorBody(msg))

\* except Exception as e: ... 500
InternalServerError == Response(HTTP_INTERNAL_ERROR, ErrorBody("Internal server error"))

\* the except clauses of analyze and regenerate, for an exception the model call raised
IndexExcept(exc) ==
    IF exc \in ValueErrors THEN ValueErrorResponse("model error")
    ELSE InternalServerError

index_analyze_pre(req, key) ==
    IF ~req.ok THEN Return(InternalServerError)
    ELSE LET data == req.v IN
    IF Falsy(data)
    THEN Return(Response(HTTP_BAD_REQUEST, ErrorBody("No JSON data provided")))
    ELSE IF ~IsObj(data) THEN Return(InternalServerError)
    ELSE IF AnalyzeRequestErrors(data) # <<>>
    THEN Return(InvalidRequest(AnalyzeRequestErrors(data)))
    ELSE IF ~key THEN Return(ValueErrorResponse("GEMINI_API_KEY not configured"))
    ELSE CallModel

index_analyze_post(req, out) ==
    IF out.raised # "none" THEN Return(IndexExcept(out.raised))
    ELSE LET result == analyze_parse(out.text, out.doc) IN
         IF result.ok THEN Return(jsonify(result.v))
         ELSE Return(ValueErrorResponse("Invalid JSON response from Gemini"))

index_regenerate_pre(req, key) ==
    IF ~req.ok THEN Return(InternalServerError)
    ELSE LET data == req.v IN
    IF Falsy(data)
    THEN Return(Response(HTTP_BAD_REQUEST, ErrorBody("No JSON data provided")))
    ELSE IF ~IsObj(data) THEN Return(InternalServerError)
    ELSE IF RegenerateRequestErrors(data) # <<>>
    THEN Return(InvalidRequest(RegenerateRequestErrors(data)))
    ELSE IF ~key THEN Return(ValueErrorResponse("GEMINI_API_KEY not configured"))
    ELSE CallModel

index_regenerate_post(req, out) ==
    IF out.raised # "none" THEN Return(IndexExcept(out.raised))
    ELSE LET result == regenerate_parse(out.text, out.doc) IN
         IF result.ok THEN Return(jsonify(Obj("summary" :> result.v)))
         ELSE Return(ValueErrorResponse("Invalid JSON response from Gemini"))

(***************************************************************************)
(* Requests: what request.get_json() gives the handler.                    *)
(***************************************************************************)
Handlers == {"api.analyze", "api.regenerate", "api.summarize",
             "index.analyze", "index.regenerate"}

\* the request fields each handler reads, in the order it reads them
FieldSeq(h) ==
    CASE h = "api.analyze" -> <<"image", "sessionId", "existingEntities">>
      [] h = "api.regenerate" -> <<"sessionId", "screens", "previousSession">>
      [] h = "api.summarize" -> <<"sessionId", "sessionName", "entities">>
      [] h = "index.analyze" -> <<"image", "session_id", "existing_entities">>
      [] h = "index.regenerate" -> <<"session_id", "deleted_ids", "remaining_screenshots">>

Fields(h) == {FieldSeq(h)[i] : i \in 1..Len(FieldSeq(h))}

\* the fields without which the handler answers 400
RequiredFields(h) ==
    CASE h = "api.analyze" -> {"image"}
      [] h = "api.regenerate" -> {"sessionId", "screens"}
      [] h = "api.summarize" -> {"sessionId", "sessionName", "entities"}
      [] h = "index.analyze" -> {"image", "session_id"}
      [] h = "index.regenerate" -> {"session_id", "deleted_ids", "remaining_screenshots"}

ShotSeq == <<"shot-1", "shot-2">>
ShotIds == {ShotSeq[i] : i \in 1..Len(ShotSeq)}
\* the lists of screenshot ids, in capture order
IdLists == {SelectSeq(ShotSeq, LAMBDA x : x \in S) : S \in SUBSET ShotIds}
StrList(q) == List([i \in 1..Len(q) |-> Str(q[i])])

EntitySeq == <<"e1", "e2">>
ExistingEntity(id) ==
    Obj("id" :> Str(id) @@ "type" :> Str("hotel") @@ "data" :> EmptyObj)
ScreenshotData(id) ==
    Obj("id" :> Str(id) @@ "raw_text" :> Str("Hilton") @@ "data" :> EmptyObj)

FieldValues(k) ==
    CASE k = "image" -> {Str(s) : s \in ImageStrings}
      [] k \in {"sessionId", "session_id"} -> {Str("s1")}
      [] k = "sessionName" -> {Str("Trip")}
      [] k \in {"existingEntities", "entities"} -> {List(<<>>)}
      [] k = "screens" -> {List(<<>>), List(<<ScreenshotData("shot-1")>>)}
      [] k = "previousSession" ->
            {EmptyObj,
             Obj("sessionSummary" :> Str("Hotels") @@ "sessionCategory" :> Str("trip-planning")),
             Str("Hotels"), Null}
      [] k = "existing_entities" ->
            {List([i \in 1..n |-> ExistingEntity(EntitySeq[i])]) : n \in 0..Len(EntitySeq)}
      [] k = "deleted_ids" -> {StrList(q) : q \in IdLists}
      [] k = "remaining_screenshots" ->
            {List([i \in 1..Len(q) |-> ScreenshotData(q[i])]) : q \in IdLists}

ObjBodies(h) ==
    {Obj(f) : f \in UNION {
        {g \in [K -> UNION {FieldValues(k) : k \in K}] : \A k \in K : g[k] \in FieldValues(k)}
        : K \in SUBSET Fields(h)}}

\* JSON arrays of field names: bodies that are not objects
ListBodies(h) == {StrList(SubSeq(FieldSeq(h), 1, n)) : n \in 0..Len(FieldSeq(h))}

Requests(h) ==
    {Raise("BadRequest"), Ok(Null)} \cup {Ok(b) : b \in ObjBodies(h) \cup ListBodies(h)}

NoRequest == Raise("none")

(***************************************************************************)
(* Replies: what model.generate_content does.                              *)
(***************************************************************************)
Restrict(f, K) == [k \in K |-> f[k]]

Categories == {"trip-planning", "shopping", "job-search", "research",
               "content-writing", "productivity", "other"}
EntityTypes == {"hotel", "product", "job", "flight", "restaurant", "article", "other"}

AnalyzeFields == {"rawText", "summary", "category", "entities", "suggestedNotebookTitle"}

AnalyzeEntity(type) ==
    Obj("type" :> Str(type) @@ "title" :> Str("Hilton") @@ "attributes" :> EmptyObj)

AnalyzeDoc(cat, ents) ==
    "rawText" :> Str("Hilton $120") @@ "summary" :> Str("A screenshot of a hotel.")
    @@ "category" :> Str(cat) @@ "entities" :> List(ents)
    @@ "suggestedNotebookTitle" :> Str("Trip")

AnalyzeKeySets ==
    {AnalyzeFields, {}} \cup {AnalyzeFields \ {k} : k \in AnalyzeFields}

ApiAnalyzeReplies ==
    {Null, List(<<>>)} \cup
    {Obj(Restrict(AnalyzeDoc(cat, ents), K)) :
        cat \in {"trip-planning", "other", "recipes"},
        ents \in {<<>>, <<AnalyzeEntity("hotel")>>, <<AnalyzeEntity("spaceship")>>},
        K \in AnalyzeKeySets}

ApiRegenerateReplies ==
    {Null, EmptyObj,
     Obj("sessionId" :> Str("s1") @@ "sessionSummary" :> Str("Two hotels.")
         @@ "sessionCategory" :> Str("trip-planning") @@ "entities" :> List(<<>>)
         @@ "suggestedNotebookTitle" :> Str("Trip"))}

ApiSummarizeReplies ==
    {Null, EmptyObj,
     Obj("condensedSummary" :> Str("Two hotels.") @@ "keyHighlights" :> List(<<>>)
         @@ "recommendations" :> List(<<>>) @@ "mergedEntities" :> List(<<>>)
         @@ "suggestedTitle" :> Str("Trip") @@ "suggestedQueries" :> List(<<>>)
         @@ "keywords" :> List(<<>>))}

MatchedEntity(type, is_new, merge_with_id) ==
    Obj("type" :> Str(type) @@ "is_new" :> Bool(is_new)
        @@ "merge_with_id" :> merge_with_id @@ "confidence" :> Num(1)
        @@ "data" :> EmptyObj)

IndexAnalyzeReplies ==
    {Null, EmptyObj} \cup
    {Obj("raw_text" :> Str("Hilton $120") @@ "entity" :> MatchedEntity(type, is_new, m)) :
        type \in {"hotel", "spaceship"}, is_new \in BOOLEAN,
        m \in {Null, Str("e1"), Str("e2"), Str("e9")}}

ConsolidatedEntity(sources) ==
    Obj("entity_type" :> Str("hotel") @@ "source_screenshot_ids" :> StrList(sources)
        @@ "data" :> EmptyObj)

IndexRegenerateReplies ==
    {Null} \cup
    {List(q) : q \in UNION {[1..n -> {ConsolidatedEntity(s) : s \in IdLists}]
                            : n \in 0..MaxSummary}}

Replies(h) ==
    CASE h = "api.analyze" -> ApiAnalyzeReplies
      [] h = "api.regenerate" -> ApiRegenerateReplies
      [] h = "api.summarize" -> ApiSummarizeReplies
      [] h = "index.analyze" -> IndexAnalyzeReplies
      [] h = "index.regenerate" -> IndexRegenerateReplies

\* the texts a reply's document arrives in
ReplyTexts ==
    {<<"J">>, <<"S", "J", "N">>,
     <<"F", "T", "N", "J", "N", "F">>, <<"F", "N", "J", "N", "F">>,
     <<"F", "J", "F">>, <<"F", "T", "N", "J">>,
     <<"T">>, <<>>}

HasDoc(t) == \E i \in 1..Len(t) : t[i] = "J"

Returned(t, doc) == [raised |-> "none", text |-> t, doc |-> doc]
Raised(exc) == [raised |-> exc, text |-> <<>>, doc |-> Null]
NoReply == Raised("no call")

\* generate_content raises (a ValueError, or an API error), or returns a text
Outcomes(h) ==
    {Raised("ValueError"), Raised("GoogleAPIError")}
    \cup {Returned(t, Null) : t \in {u \in ReplyTexts : ~HasDoc(u)}}
    \cup {Returned(t, doc) : t \in {u \in ReplyTexts : HasDoc(u)}, doc \in Replies(h)}

(***************************************************************************)
(* The handlers as a state machine.                                        *)
(***************************************************************************)
ParseDoc == Obj("rawText" :> Str("Hilton $120"))
NoParse ==
    [parser |-> "none", text |-> <<>>, normalized |-> <<>>, result |-> Raise("none"),
     renormalized |-> <<>>, reresult |-> Raise("none")]

Init ==
    /\ GEMINI_API_KEY \in BOOLEAN
    /\ handler = "none"
    /\ request = NoRequest
    /\ pc = "idle"
    /\ calls = 0
    /\ reply = NoReply
    /\ response = NoResponse
    /\ parse = NoParse

\* a request arrives and handler h runs to its first call or to its return
Begin(h, req, step) ==
    /\ pc = "idle"
    /\ handler' = h
    /\ request' = req
    /\ reply' = NoReply
    /\ IF step.call
       THEN pc' = "calling" /\ calls' = calls + 1 /\ response' = NoResponse
       ELSE pc' = "responded" /\ calls' = calls /\ response' = step.resp
    /\ UNCHANGED <<GEMINI_API_KEY, parse>>

\* generate_content completes and handler h runs on
Resume(h, out, step) ==
    /\ pc = "calling"
    /\ handler = h
    /\ reply' = out
    /\ IF step.call
       THEN pc' = "calling" /\ calls' = calls + 1 /\ response' = NoResponse
       ELSE pc' = "responded" /\ calls' = calls /\ response' = step.resp
    /\ UNCHANGED <<GEMINI_API_KEY, handler, request, parse>>

ApiAnalyze ==
    /\ pc = "idle"
    /\ \E req \in Requests("api.analyze") :
        Begin("api.analyze", req, api_analyze_pre(req, GEMINI_API_KEY))
ApiAnalyzeReturn ==
    /\ pc = "calling" /\ handler = "api.analyze"
    /\ \E out \in Outcomes("api.analyze") :
        Resume("api.analyze", out, api_analyze_post(request, out))

ApiRegenerate ==
    /\ pc = "idle"
    /\ \E req \in Requests("api.regenerate") :
        Begin("api.regenerate", req, api_regenerate_pre(req, GEMINI_API_KEY))
ApiRegenerateReturn ==
    /\ pc = "calling" /\ handler = "api.regenerate"
    /\ \E out \in Outcomes("api.regenerate") :
        Resume("api.regenerate", out, api_regenerate_post(request, out))

ApiSummarize ==
    /\ pc = "idle"
    /\ \E req \in Requests("api.summarize") :
        Begin("api.summarize", req, api_summarize_pre(req, GEMINI_API_KEY))
ApiSummarizeReturn ==
    /\ pc = "calling" /\ handler = "api.summarize"
    /\ \E out \in Outcomes("api.summarize") :
        Resume("api.summarize", out, api_summarize_post(request, out))

IndexAnalyze ==
    /\ pc = "idle"
    /\ \E req \in Requests("index.analyze") :
        Begin("index.analyze", req, index_analyze_pre(req, GEMINI_API_KEY))
IndexAnalyzeReturn ==
    /\ pc = "calling" /\ handler = "index.analyze"
    /\ \E out \in Outcomes("index.analyze") :
        Resume("index.analyze", out, index_analyze_post(request, out))

IndexRegenerate ==
    /\ pc = "idle"
    /\ \E req \in Requests("index.regenerate") :
        Begin("index.regenerate", req, index_regenerate_pre(req, GEMINI_API_KEY))
IndexRegenerateReturn ==
    /\ pc = "calling" /\ handler = "index.regenerate"
    /\ \E out \in Outcomes("index.regenerate") :
        Resume("index.regenerate", out, index_regenerate_post(request, out))

\* the response has been sent; the process waits for the next request
NextRequest ==
    /\ pc = "responded"
    /\ pc' = "idle"
    /\ handler' = "none"
    /\ request' = NoRequest
    /\ calls' = 0
    /\ reply' = NoReply
    /\ response' = NoResponse
    /\ UNCHANGED <<GEMINI_API_KEY, parse>>

Next ==
    \/ ApiAnalyze \/ ApiAnalyzeReturn
    \/ ApiRegenerate \/ ApiRegenerateReturn
    \/ ApiSummarize \/ ApiSummarizeReturn
    \/ IndexAnalyze \/ IndexAnalyzeReturn
    \/ IndexRegenerate \/ IndexRegenerateReturn
    \/ NextRequest

Spec == Init /\ [][Next]_vars

(***************************************************************************)
(* The parsers on every text of at most MaxLen tokens.                     *)
(***************************************************************************)
InitParse ==
    /\ GEMINI_API_KEY = TRUE
    /\ handler = "none"
    /\ request = NoRequest
    /\ pc = "text"
    /\ calls = 0
    /\ reply = NoReply
    /\ response = NoResponse
    /\ \E t \in Texts(MaxLen) : parse = [NoParse EXCEPT !.text = t]

\* parser p is applied to the text
Parse ==
    /\ pc = "text"
    /\ \E p \in Parsers :
        parse' = [parse EXCEPT !.parser = p,
                               !.normalized = NormalizeBy(p, parse.text),
                               !.result = ParseBy(p, parse.text, ParseDoc)]
    /\ pc' = "parsed"
    /\ UNCHANGED <<GEMINI_API_KEY, handler, request, calls, reply, response>>

\* the same parser is applied to the text it normalized
Reparse ==
    /\ pc = "parsed"
    /\ parse' = [parse EXCEPT !.renormalized = NormalizeBy(parse.parser, parse.normalized),
                              !.reresult = ParseBy(parse.parser, parse.normalized, ParseDoc)]
    /\ pc' = "reparsed"
    /\ UNCHANGED <<GEMINI_API_KEY, handler, request, calls, reply, response>>

NextParse == Parse \/ Reparse

SpecParse == InitParse /\ [][NextParse]_vars

(***************************************************************************)
(* Vocabulary of the properties.                                           *)
(***************************************************************************)
Responded == pc = "responded"

\* the request body is a JSON object carrying every required field
CarriesRequiredFields(h, req) ==
    req.ok /\ IsObj(req.v) /\ RequiredFields(h) \subseteq Keys(req.v)

\* ... and its image, when it has one, is decodable
WellFormed(h, req) ==
    /\ CarriesRequiredFields(h, req)
    /\ "image" \in Keys(req.v) => decode_base64_image(req.v.o["image"]).ok

\* the credential is missing, the model call raised, or its text does not parse
DownstreamFailure ==
    \/ ~GEMINI_API_KEY
    \/ reply.raised \in {"ValueError", "GoogleAPIError"}
    \/ reply.raised = "none" /\ ~parse_json_response(reply.text, reply.doc).ok

\* the fixed fallback object of each operation
OperationFallback(h, req) ==
    CASE h \in {"api.analyze", "index.analyze"} -> ApiAnalyzeFallback
      [] h = "api.regenerate" -> ApiRegenerateFallback(Get(req.v, "sessionId", Str("")).v)
      [] h = "index.regenerate" -> Obj("summary" :> List(<<>>))
      [] h = "api.summarize" -> ApiSummarizeFallback

(***************************************************************************)
(* C1: every analyze, regenerate and summarize request that carries all    *)
(* required fields and meets a downstream failure (credential missing,     *)
(* model call raising, unparsable text) is answered HTTP 200 with the      *)
(* operation's fixed fallback object, never a 4xx or a 500.                *)
(* Fails on src/index.py, whose handlers answer 400 or 500.                *)
(***************************************************************************)
C1_FallbackOnDownstreamFailure ==
    (Responded /\ WellFormed(handler, request) /\ DownstreamFailure)
        => response = Response(HTTP_OK, OperationFallback(handler, request))

(***************************************************************************)
(* C2: for every valid analyze request the response body carries the full  *)
(* field set rawText, summary, category, entities, suggestedNotebookTitle, *)
(* whatever JSON value the model's text parses to.                         *)
(* Fails: the parsed value is returned as it is.                           *)
(***************************************************************************)
C2_AnalyzeFullFieldSet ==
    (Responded /\ handler = "api.analyze" /\ WellFormed(handler, request))
        => IsObj(response.body) /\ AnalyzeFields \subseteq Keys(response.body)

\* some required field is absent from the request
MissingRequiredField(h, req) == ~CarriesRequiredFields(h, req)

\* the error of a 400 response names field f
NamesField(body, f) ==
    /\ IsObj(body)
    /\ \/ /\ "error" \in Keys(body)
          /\ body.o["error"] \in {Str("Missing 'image' field"), Str("Missing 'sessionId' field"),
                                  Str("Missing 'screens' field"), Str("Missing 'sessionName' field"),
                                  Str("Missing 'entities' field")}
          /\ body.o["error"] =
                (CASE f = "image" -> Str("Missing 'image' field")
                   [] f = "sessionId" -> Str("Missing 'sessionId' field")
                   [] f = "screens" -> Str("Missing 'screens' field")
                   [] f = "sessionName" -> Str("Missing 'sessionName' field")
                   [] f = "entities" -> Str("Missing 'entities' field")
                   [] OTHER -> Null)
       \/ /\ "details" \in Keys(body)
          /\ \E d \in Elems(body.o["details"]) : d.o["loc"] = List(<<Str(f)>>)

\* the required fields the request lacks
MissingFields(h, req) ==
    IF req.ok /\ IsObj(req.v) THEN RequiredFields(h) \ Keys(req.v) ELSE RequiredFields(h)

(***************************************************************************)
(* C3: a request that lacks a required request field is answered HTTP 400  *)
(* with an error naming a missing field, and never with a 200 fallback.    *)
(* Fails: src/api/index.py answers an undecodable or non-object body from  *)
(* its except clause, and src/index.py answers an empty body               *)
(* "No JSON data provided".                                                *)
(***************************************************************************)
C3_MissingFieldIs400 ==
    (Responded /\ MissingRequiredField(handler, request))
        => /\ response.status = HTTP_BAD_REQUEST
           /\ \E f \in MissingFields(handler, request) : NamesField(response.body, f)

\* the ids of the entities the analyze request supplied
ExistingIds(req) ==
    LET given == Get(req.v, "existing_entities", List(<<>>)).v
    IN  {e.o["id"] : e \in Elems(given)}

\* the entity of an accepted single-entity analyze response
HasEntity(body) ==
    IsObj(body) /\ "entity" \in Keys(body) /\ IsObj(body.o["entity"])

(***************************************************************************)
(* C4: analyze (single-entity family) never returns a merge_with_id that   *)
(* is absent from the request's existing entities.                         *)
(* Fails: analyze_with_gemini returns the model's decision unvalidated.    *)
(***************************************************************************)
C4_MergeTargetExists ==
    (Responded /\ handler = "index.analyze" /\ response.status = HTTP_OK
        /\ HasEntity(response.body))
        => LET m == response.body.o["entity"].o["merge_with_id"]
           IN  m = Null \/ m \in ExistingIds(request)

\* the consolidated entities of a regenerate response
SummaryEntities(body) ==
    IF IsObj(body) /\ "summary" \in Keys(body) /\ IsList(body.o["summary"])
    THEN Elems(body.o["summary"]) ELSE {}

SourceIds(e) == Elems(e.o["source_screenshot_ids"])
DeletedIds(req) == Elems(req.v.o["deleted_ids"])

(***************************************************************************)
(* C5: regenerate never returns an entity whose source_screenshot_ids      *)
(* holds an id listed in the request's deleted_ids.                        *)
(* Fails: regenerate_with_gemini returns the model's list unvalidated.     *)
(***************************************************************************)
C5_NoDeletedSources ==
    (Responded /\ handler = "index.regenerate" /\ response.status = HTTP_OK)
        => \A e \in SummaryEntities(response.body) :
              SourceIds(e) \cap DeletedIds(request) = {}

(***************************************************************************)
(* C6: every entity of the regenerate output has a source screenshot that  *)
(* was not deleted; an entity left with no source does not appear.         *)
(* Fails: no entity is ever dropped.                                       *)
(***************************************************************************)
C6_EveryEntityHasASource ==
    (Responded /\ handler = "index.regenerate" /\ response.status = HTTP_OK)
        => \A e \in SummaryEntities(response.body) :
              SourceIds(e) \ DeletedIds(request) # {}

\* the value of key k of an object is a string of set S
StrIn(v, k, S) == k \in Keys(v) => IsStr(v.o[k]) /\ v.o[k].s \in S

(***************************************************************************)
(* C10: in every accepted response, category and each entity type are      *)
(* members of their closed enumerations, other values having been          *)
(* normalized to "other".                                                  *)
(* Fails: the model's values are passed through unchanged.                 *)
(***************************************************************************)
C10_ClosedEnumerations ==
    (Responded /\ response.status = HTTP_OK /\ IsObj(response.body))
        => /\ handler = "api.analyze" =>
                /\ StrIn(response.body, "category", Categories)
                /\ "entities" \in Keys(response.body) =>
                      \A e \in Elems(response.body.o["entities"]) : StrIn(e, "type", EntityTypes)
           /\ (handler = "index.analyze" /\ HasEntity(response.body)) =>
                StrIn(response.body.o["entity"], "type", EntityTypes)

(***************************************************************************)
(* Fenced texts, described by position rather than by split and join.      *)
(***************************************************************************)
NoNewline(q) == \A i \in 1..Len(q) : q[i] # "N"

\* q is one JSON document with optional blanks around it
IsJsonText(q) ==
    \E i \in 1..Len(q) : q[i] = "J" /\ \A k \in (1..Len(q)) \ {i} : q[k] \in Whitespace

\* an opening fence line: the fence, then an optional tag
IsOpeningFence(q) == q \in {<<"F">>, <<"F", "T">>}

\* what lies between the first and the last newline of t
Between(t) ==
    IF NoNewline(t) THEN <<>>
    ELSE LET first == CHOOSE i \in 1..Len(t) : t[i] = "N" /\ NoNewline(SubSeq(t, 1, i - 1))
             last == CHOOSE i \in 1..Len(t) : t[i] = "N" /\ NoNewline(SubSeq(t, i + 1, Len(t)))
         IN  SubSeq(t, first + 1, last - 1)

\* opening fence line, a JSON document, closing fence line
FencedOnOwnLines(t) ==
    \E i, k \in 1..Len(t) :
        /\ i < k /\ t[i] = "N" /\ t[k] = "N"
        /\ IsOpeningFence(SubSeq(t, 1, i - 1))
        /\ IsJsonText(SubSeq(t, i + 1, k - 1))
        /\ SubSeq(t, k + 1, Len(t)) = <<"F">>

\* fence, JSON document and fence on a single line
FencedOnOneLine(t) ==
    /\ Len(t) >= 3 /\ NoNewline(t)
    /\ Head(t) = "F" /\ t[Len(t)] = "F"
    /\ IsJsonText(SubSeq(t, 2, Len(t) - 1))

\* opening fence line and a JSON document, the closing fence missing
ClosingFenceMissing(t) ==
    \E i \in 1..Len(t) :
        /\ t[i] = "N"
        /\ IsOpeningFence(SubSeq(t, 1, i - 1))
        /\ IsJsonText(SubSeq(t, i + 1, Len(t)))

Parsed == pc \in {"parsed", "reparsed"}
Accepted(r) == r.ok /\ r.v = ParseDoc

(***************************************************************************)
(* C7, as amended: when the trimmed text begins with a fence marker, each  *)
(* of the three parsers hands json.loads exactly what lies between the     *)
(* first and the last line; a reply made of an opening fence line, a JSON  *)
(* document and a closing fence line yields the document unchanged; a      *)
(* reply whose fence and document share one line, or whose closing fence   *)
(* is missing, is rejected.                                                *)
(***************************************************************************)
C7_FenceStripRule ==
    Parsed =>
        LET t == Strip(parse.text) IN
        /\ StartsWithFence(t) =>
              /\ parse.normalized = Between(t)
              /\ parse.result.ok <=> IsJsonText(Between(t))
        /\ FencedOnOwnLines(t) => Accepted(parse.result)
        /\ (FencedOnOneLine(t) \/ ClosingFenceMissing(t)) => ~parse.result.ok

\* the fenced reply of the scenario, parsed by one of the inline parsers
C7_Witness ==
    /\ pc = "parsed"
    /\ parse.parser = "analyze_with_gemini"
    /\ parse.text = <<"F", "T", "N", "J", "N", "F">>
    /\ parse.normalized = <<"J">>
    /\ Accepted(parse.result)

\* C7 as stated: every fenced reply wrapping valid JSON yields the document,
\* also on one line and without a closing fence
C7_EveryFencedReplyParses ==
    Parsed =>
        LET t == Strip(parse.text) IN
        (FencedOnOwnLines(t) \/ FencedOnOneLine(t) \/ ClosingFenceMissing(t))
            => Accepted(parse.result)

(***************************************************************************)
(* C8, as amended: for every text a parser accepts, parsing the text that  *)
(* normalization produced yields the same object as the first parse; and   *)
(* for every text that does not begin with a fence marker, normalizing the *)
(* normalized text leaves it unchanged.                                    *)
(***************************************************************************)
C8_ReparseOfAcceptedText ==
    pc = "reparsed" =>
        /\ parse.result.ok => parse.reresult = parse.result
        /\ ~StartsWithFence(Strip(parse.text)) => parse.renormalized = parse.normalized

\* a fenced reply with blanks inside the fence, parsed twice
C8_Witness ==
    /\ pc = "reparsed"
    /\ parse.text = <<"F", "N", "S", "J", "N", "F">>
    /\ parse.normalized = <<"S", "J">>
    /\ Accepted(parse.result)
    /\ parse.reresult = parse.result

\* C8 as stated: normalizing normalized text leaves it unchanged, for every text
C8_NormalizationIdempotent ==
    pc = "reparsed" =>
        /\ parse.renormalized = parse.normalized
        /\ parse.reresult = parse.result

\* the handler gets as far as model.generate_content
ReachesModel(h, req, key) ==
    /\ WellFormed(h, req)
    /\ key
    /\ (h = "api.regenerate" /\ "previousSession" \in Keys(req.v))
          => IsObj(req.v.o["previousSession"])

RegenerateFailurePath ==
    /\ Responded
    /\ handler = "api.regenerate"
    /\ response.status # HTTP_BAD_REQUEST
    /\ ~(reply.raised = "none" /\ parse_json_response(reply.text, reply.doc).ok)

\* the sessionId of the request body when it is an object that has one, else ""
RequestSessionId(req) ==
    IF req.ok /\ IsObj(req.v) /\ "sessionId" \in Keys(req.v)
    THEN req.v.o["sessionId"] ELSE Str("")

(***************************************************************************)
(* C11: whenever regenerate of src/api/index.py takes its failure path it  *)
(* answers HTTP 200 with the fallback object whose sessionId is the        *)
(* request's sessionId, or "" when the body has none, for every request    *)
(* body; the failure path itself never raises.                             *)
(* Fails: for an undecodable body data is unbound in the except clause,    *)
(* and for a JSON array data.get raises; Flask answers 500.                *)
(***************************************************************************)
C11_RegenerateFailurePathAnswers ==
    RegenerateFailurePath
        => response = Response(HTTP_OK, ApiRegenerateFallback(RequestSessionId(request)))

====
